---- MODULE Spec2Model ----
(***************************************************************************)
(* Model of opennmt/decoders/self_attention_decoder.py: the decoder stack  *)
(* SelfAttentionDecoder (forward, step, _run, _get_initial_state) and its  *)
(* layer _SelfAttentionDecoderLayer.call, with the key/value cache that is *)
(* threaded through incremental decoding.                                  *)
(*                                                                         *)
(* Tensors are modelled by the content of one batch row (every batched     *)
(* operation treats the rows alike); array shapes keep the batch size.     *)
(* Numeric results are symbolic terms, tuples <<tag, ...>>: two results    *)
(* are equal exactly when they are built by the same sublayers from the    *)
(* same operands, whatever the weights are.  The calls are made with       *)
(* training left unset, so common.dropout returns its input.               *)
(***************************************************************************)
EXTENDS Integers, Sequences, FiniteSets, TLC

\* ------------------------------------------------------------------ bounds
MaxLayers == 2
MaxSources == 2
MaxLen == 2
NumTokens == 2
MaxBatch == 2
MaxMemTime == 2

\* ------------------------------------------------- constructor defaults
num_units == 512
num_heads == 8

VARIABLES
  cfg,       \* the constructed decoder: num_layers, num_sources, position_encoder
  state,     \* the cache the caller holds during a generation run (optional)
  nsteps,    \* successful step calls of the run so far
  run_mem,   \* memory argument the caller passes to every step of the run
  run_len,   \* memory_sequence_length argument of the run
  hist,      \* per successful step of the run: its input, outputs, attention
  prev,      \* the cache the caller held before the last step
  last       \* the last call: its arguments and what it returned or raised

vars == <<cfg, state, nsteps, run_mem, run_len, hist, prev, last>>

\* --------------------------------------------------------------- helpers
\* Python's None and a present value, as sequences of length 0 and 1.
None == <<>>
Some(x) == <<x>>
IsNone(o) == Len(o) = 0
Get(o) == o[1]

\* F applied to the value of a (a is evaluated once).
Bind(a, F(_)) == CHOOSE r \in {F(v) : v \in {a}} : TRUE

Min2(a, b) == IF a < b THEN a ELSE b
Map(s, F(_)) == [i \in 1..Len(s) |-> F(s[i])]

\* The elements of s at the positions where row is TRUE (a masked selection).
RECURSIVE Keep(_, _, _)
Keep(s, row, j) ==
  IF j > Len(s) THEN <<>>
  ELSE (IF row[j] THEN <<s[j]>> ELSE <<>>) \o Keep(s, row, j + 1)

\* ------------------------------------------------------------- arguments
\* A memory / memory_sequence_length argument: None, a bare tensor, or a
\* list or tuple of them.
ArgNone == [kind |-> "none", items |-> <<>>]
ArgTensor(x) == [kind |-> "tensor", items |-> <<x>>]
ArgList(xs) == [kind |-> "list", items |-> xs]

\* A memory tensor [batch, time, units]: source i with t positions.
Mem(i, t) == [j \in 1..t |-> <<"m", i, j>>]
\* An input embedding of token tok.
Emb(tok) == <<"x", tok>>
Tokens == 1..NumTokens

\* ----------------------------------------------- external collaborators
\* inputs *= num_units ** 0.5
Scale(x) == <<"scale", x>>

\* position.PositionEncoder.call: position p when given, else the natural
\* positions 1..T of the sequence.
PositionEncoder(xs, position) ==
  [i \in 1..Len(xs) |->
     <<"pos", xs[i], IF IsNone(position) THEN i ELSE Get(position)>>]

\* common.dropout with training unset: the input.
Dropout(xs) == xs

\* transformer.future_mask(sequence_length, maximum_length): row i may see
\* key j iff j <= i and j is within the row's length.
FutureMask(sequence_length, maximum_length) ==
  [i \in 1..maximum_length |->
     [j \in 1..maximum_length |-> j <= i /\ j <= sequence_length]]

\* tf.sequence_mask(length, maxlen) then expand_dims(1): one row, broadcast
\* over the query positions.
SequenceMask(length, maxlen) == << [j \in 1..maxlen |-> j <= length] >>

\* A key or value array [batch, heads, time, head_dim]; data holds the time
\* axis.
Array(batch, dtype, heads, dim, data) ==
  [batch |-> batch, heads |-> heads, head_dim |-> dim, dtype |-> dtype,
   data |-> data]
Shape(a) == <<a.batch, a.heads, Len(a.data), a.head_dim>>
TimeDim(a) == Len(a.data)

\* The row of an optional mask that applies to query i of nk keys.
MaskRow(mask, i, nk) ==
  IF IsNone(mask) THEN [j \in 1..nk |-> TRUE]
  ELSE IF Len(Get(mask)) = 1 THEN Get(mask)[1] ELSE Get(mask)[i]

\* transformer.TransformerLayerWrapper(MultiHeadAttention): layer l, source
\* src (0 for self-attention).  inputs is [batch, dtype, data].  Keys and
\* values are projected from the inputs and appended to the cache
\* (self-attention), or projected from the memory unless the cache already
\* holds them (memory attention).  Each query attends to the keys its mask
\* row allows.  Returns the outputs, the (keys, values) cache and the
\* per-query attention weights of all heads.
Projected(l, src, tag, from) == [j \in 1..Len(from) |-> <<tag, l, src, from[j]>>]
KeysValues(l, src, inputs, memory, cache) ==
  LET fresh(tag, from) ==
        Array(inputs.batch, inputs.dtype, num_heads, num_units \div num_heads,
              Projected(l, src, tag, from))
  IN  IF IsNone(memory)
      THEN IF IsNone(cache)
           THEN [keys |-> fresh("key", inputs.data),
                 values |-> fresh("value", inputs.data)]
           ELSE [keys |-> [Get(cache).keys EXCEPT
                    !.data = @ \o Projected(l, src, "key", inputs.data)],
                 values |-> [Get(cache).values EXCEPT
                    !.data = @ \o Projected(l, src, "value", inputs.data)]]
      ELSE IF IsNone(cache) \/ TimeDim(Get(cache).keys) = 0
           THEN [keys |-> fresh("key", Get(memory)),
                 values |-> fresh("value", Get(memory))]
           ELSE Get(cache)
Attend(l, src, inputs, mask, kv) ==
  [outputs |-> [inputs EXCEPT !.data =
     [i \in 1..Len(@) |->
        <<"att", l, src, @[i],
          Keep(kv.keys.data, MaskRow(mask, i, Len(kv.keys.data)), 1),
          Keep(kv.values.data, MaskRow(mask, i, Len(kv.keys.data)), 1)>>]],
   kv |-> kv,
   attention |-> [i \in 1..Len(inputs.data) |->
                    <<"weights", l, src, inputs.data[i], kv.keys.data,
                      MaskRow(mask, i, Len(kv.keys.data))>>]]
MultiHeadAttention(l, src, inputs, memory, mask, cache) ==
  Bind(KeysValues(l, src, inputs, memory, cache),
       LAMBDA kv : Attend(l, src, inputs, mask, kv))

\* transformer.TransformerLayerWrapper(FeedForwardNetwork), position-wise.
FeedForwardNetwork(l, inputs) ==
  [inputs EXCEPT !.data = [i \in 1..Len(@) |-> <<"ffn", l, @[i]>>]]

\* common.LayerNorm, position-wise.
LayerNorm(inputs) ==
  [inputs EXCEPT !.data = [i \in 1..Len(@) |-> <<"layer_norm", @[i]>>]]

\* decoder.Decoder.output_layer: the projection to vocabulary logits.
OutputLayer(x) == <<"output_layer", x>>

\* ------------------------------------------ _SelfAttentionDecoderLayer
\* attention[:, 0]: the weights of the first head.
FirstHead(w) == <<"head", 0, w>>

\* The loop of call over zip(self.attention, memory, memory_mask,
\* memory_cache): sources i..n in order, each attending from the outputs of
\* the one before it.
RECURSIVE MemoryAttention(_, _, _, _, _, _, _, _, _)
MemoryAttention(l, i, n, outputs, memory, memory_mask, memory_cache, memory_kv, attention) ==
  IF i > n
  THEN [outputs |-> outputs, memory_kv |-> memory_kv, attention |-> attention]
  ELSE Bind(MultiHeadAttention(l, i, outputs, Some(memory[i]),
                               Some(memory_mask[i]), memory_cache[i]),
            LAMBDA result :
              MemoryAttention(l, i + 1, n, result.outputs, memory,
                              memory_mask, memory_cache,
                              Append(memory_kv, result.kv),
                              IF cfg.num_sources = 1  \* return_attention
                              THEN Some(Map(result.attention, FirstHead))
                              ELSE attention))

\* _SelfAttentionDecoderLayer.call for layer l.  memory and memory_mask are
\* optional sequences, cache an optional layer cache.  zip stops at the
\* shortest of its arguments and raises TypeError when one is None.
\* Mutant: the memory cache is read from the self-attention entry.
MemoryCache_SelfKv(cache) ==
  IF IsNone(cache) THEN [i \in 1..cfg.num_sources |-> None]
  ELSE [i \in 1..cfg.num_sources |-> Some(Get(cache).self_kv)]
MemoryCache(cache) ==
  IF IsNone(cache) THEN [i \in 1..cfg.num_sources |-> None]
  ELSE Map(Get(cache).memory_kv, Some)
ZipLength(memory, memory_mask, memory_cache) ==
  Min2(Min2(cfg.num_sources, Len(memory)),
       Min2(Len(memory_mask), Len(memory_cache)))
layer_call(l, inputs, mask, memory, memory_mask, cache) ==
  Bind(MultiHeadAttention(l, 0, inputs, None, mask,
                          IF IsNone(cache) THEN None
                          ELSE Some(Get(cache).self_kv)),
       LAMBDA sa :
         IF IsNone(memory)
         THEN [status |-> "ok",
               outputs |-> FeedForwardNetwork(l, sa.outputs),
               cache |-> Some([self_kv |-> sa.kv, memory_kv |-> <<>>]),
               attention |-> None]
         ELSE IF IsNone(memory_mask)
         THEN [status |-> "TypeError", outputs |-> inputs,
               cache |-> None, attention |-> None]
         ELSE Bind(MemoryAttention(l, 1,
                     ZipLength(Get(memory), Get(memory_mask),
                               MemoryCache(cache)),
                     sa.outputs, Get(memory), Get(memory_mask),
                     MemoryCache(cache), <<>>, None),
                   LAMBDA ma :
                     [status |-> "ok",
                      outputs |-> FeedForwardNetwork(l, ma.outputs),
                      cache |-> Some([self_kv |-> sa.kv,
                                      memory_kv |-> ma.memory_kv]),
                      attention |-> ma.attention]))

\* ------------------------------------------------ SelfAttentionDecoder
\* What a call hands back: status "ok" with its three results, or the
\* exception raised and nothing else.  layers_run counts the layer calls
\* that were started.
Raised(error, layers_run) ==
  [status |-> error, outputs |-> None, state |-> None, attention |-> None,
   layers_run |-> layers_run]

\* The loop of _run over self.layers, from layer i on.
RECURSIVE RunLayers(_, _, _, _, _, _, _)
RunLayers(i, inputs, mask, memory, memory_mask, cache, new_cache) ==
  Bind(layer_call(i, inputs, mask, memory, memory_mask,
                  IF IsNone(cache) THEN None ELSE Some(Get(cache)[i])),
       LAMBDA r :
         IF r.status # "ok" THEN Raised(r.status, i)
         ELSE IF i = cfg.num_layers
         THEN [status |-> "ok", outputs |-> Some(LayerNorm(r.outputs)),
               state |-> Some(Append(new_cache, Get(r.cache))),
               attention |-> r.attention, layers_run |-> i]
         ELSE RunLayers(i + 1, r.outputs, mask, memory, memory_mask, cache,
                        Append(new_cache, Get(r.cache))))

\* isinstance(x, (list, tuple)) or else (x,), None staying None.
AsTuple(arg) == IF arg.kind = "none" THEN None ELSE Some(arg.items)

\* SelfAttentionDecoder._run.  sequence_length, cache and step are optional.
\* Mutant: the position of a step is its timestep, without the + 1.
ProcessInputs_StepPosition(inputs, step_arg) ==
  [inputs EXCEPT !.data =
     Dropout(IF cfg.position_encoder
             THEN PositionEncoder(Map(@, Scale),
                                  IF IsNone(step_arg) THEN None
                                  ELSE Some(Get(step_arg)))
             ELSE Map(@, Scale))]
ProcessInputs(inputs, step_arg) ==
  [inputs EXCEPT !.data =
     Dropout(IF cfg.position_encoder
             THEN PositionEncoder(Map(@, Scale),
                                  IF IsNone(step_arg) THEN None
                                  ELSE Some(Get(step_arg) + 1))
             ELSE Map(@, Scale))]
\* Mutant: the query mask is the padding mask alone, not causal.
QueryMask_PaddingOnly(sequence_length, maximum_length) ==
  IF IsNone(sequence_length) THEN None
  ELSE Some([i \in 1..maximum_length |->
               [j \in 1..maximum_length |-> j <= Get(sequence_length)]])
QueryMask(sequence_length, maximum_length) ==
  IF IsNone(sequence_length) THEN None
  ELSE Some(FutureMask(Get(sequence_length), maximum_length))
MemoryMask(memory, lengths) ==
  IF IsNone(lengths) THEN None
  ELSE Some([i \in 1..Min2(Len(Get(memory)), Len(Get(lengths))) |->
               SequenceMask(Get(lengths)[i], Len(Get(memory)[i]))])
run(inputs, sequence_length, cache, memory_arg, memory_sequence_length_arg, step_arg) ==
  IF memory_sequence_length_arg.kind # "none" /\ memory_arg.kind = "none"
  THEN Raised("TypeError", 0)
  ELSE RunLayers(1, ProcessInputs(inputs, step_arg),
                 QueryMask(sequence_length, Len(inputs.data)),
                 AsTuple(memory_arg),
                 MemoryMask(AsTuple(memory_arg),
                            AsTuple(memory_sequence_length_arg)),
                 cache, <<>>)

\* Mutant: the sampling_probability test comes after _run.
forward_SamplingCheckedLate(inputs, sequence_length, memory, memory_sequence_length, sampling_probability) ==
  Bind(run(inputs, sequence_length, None, memory,
           memory_sequence_length, None),
       LAMBDA r :
         IF ~IsNone(sampling_probability)
         THEN Raised("ValueError", r.layers_run)
         ELSE IF r.status # "ok" THEN r
         ELSE [r EXCEPT !.outputs =
                 Some([Get(@) EXCEPT !.data = Map(@, OutputLayer)])])

\* SelfAttentionDecoder.forward.
forward(inputs, sequence_length, memory, memory_sequence_length, sampling_probability) ==
  IF ~IsNone(sampling_probability) THEN Raised("ValueError", 0)
  ELSE Bind(run(inputs, sequence_length, None, memory,
                memory_sequence_length, None),
            LAMBDA r :
              IF r.status # "ok" THEN r
              ELSE [r EXCEPT !.outputs =
                      Some([Get(@) EXCEPT !.data = Map(@, OutputLayer)])])

\* Mutant: the state is not passed on to _run.
step_NoCache(inputs, timestep, state_arg, memory, memory_sequence_length) ==
  Bind(run([inputs EXCEPT !.data = <<@>>], None, None, memory,
           memory_sequence_length, Some(timestep)),
       LAMBDA r :
         IF r.status # "ok" THEN r
         ELSE [r EXCEPT !.outputs = Some([Get(@) EXCEPT !.data = @[1]]),
                        !.attention = IF IsNone(@) THEN None
                                      ELSE Some(Get(@)[1])])

\* SelfAttentionDecoder.step: inputs is [batch, units]; expand_dims to one
\* position, _run, squeeze the position axis again.
step(inputs, timestep, state_arg, memory, memory_sequence_length) ==
  Bind(run([inputs EXCEPT !.data = <<@>>], None, state_arg, memory,
           memory_sequence_length, Some(timestep)),
       LAMBDA r :
         IF r.status # "ok" THEN r
         ELSE [r EXCEPT !.outputs = Some([Get(@) EXCEPT !.data = @[1]]),
                        !.attention = IF IsNone(@) THEN None
                                      ELSE Some(Get(@)[1])])

\* SelfAttentionDecoder._get_initial_state.
Zeros(shape, dtype) == Array(shape[1], dtype, shape[2], shape[4], <<>>)
\* Mutant: the last dimension is num_units, not the per-head share.
InitialShape_FullUnits(batch_size) == <<batch_size, num_heads, 0, num_units>>
InitialShape(batch_size) ==
  <<batch_size, num_heads, 0, num_units \div num_heads>>
get_initial_state(batch_size, dtype) ==
  [l \in 1..cfg.num_layers |->
     [self_kv |-> [keys |-> Zeros(InitialShape(batch_size), dtype),
                   values |-> Zeros(InitialShape(batch_size), dtype)],
      memory_kv |-> [i \in 1..cfg.num_sources |->
                       [keys |-> Zeros(InitialShape(batch_size), dtype),
                        values |-> Zeros(InitialShape(batch_size), dtype)]]]]

\* ------------------------------------------------------------ the caller
Batches == 1..MaxBatch
DTypes == {"float32", "float16"}

\* The decoders that can be constructed, with at least one layer (_run
\* returns the attention of the last layer).
Configs ==
  [num_layers : 1..MaxLayers, num_sources : 0..MaxSources,
   position_encoder : BOOLEAN]

\* Memory arguments of any arity: None, a bare tensor, a list of the first n
\* sources.  Source i has MaxMemTime positions.
MemList(n) == [i \in 1..n |-> Mem(i, MaxMemTime)]
MemArgs ==
  {ArgNone, ArgTensor(Mem(1, MaxMemTime))}
    \cup {ArgList(MemList(n)) : n \in 0..MaxSources}

\* Length arguments of any arity; pad positions of each source are padding.
LenList(n, pad) == [i \in 1..n |-> MaxMemTime - pad]
LenArgs ==
  {ArgNone, ArgTensor(MaxMemTime - 1)}
    \cup {ArgList(LenList(n, 1)) : n \in 0..MaxSources}

\* The arguments a caller passes for a decoder of n sources: one memory and
\* one length vector per source (nothing when there is no source).
WellFormedArgs(n) ==
  IF n = 0 THEN {<<ArgNone, ArgNone>>}
  ELSE {<<ArgList(MemList(n)), ArgList(LenList(n, pad))>> : pad \in 0..1}
         \cup (IF n = 1
               THEN {<<ArgTensor(Mem(1, MaxMemTime)), ArgTensor(MaxMemTime)>>}
               ELSE {})

\* Input sequences [batch, time, units] of 1..MaxLen positions.
InputSeqs ==
  UNION {[1..T -> {Emb(tok) : tok \in Tokens}] : T \in 1..MaxLen}
Tensor(batch, dtype, data) == [batch |-> batch, dtype |-> dtype, data |-> data]

\* What is recorded of a call.
Call(op, batch_size, dtype, inputs, sequence_length, memory, lengths, sampling, result) ==
  [op |-> op, batch_size |-> batch_size, dtype |-> dtype, inputs |-> inputs,
   sequence_length |-> sequence_length, memory |-> memory,
   lengths |-> lengths, sampling |-> sampling, result |-> result]
NoCall ==
  Call("none", 0, "", <<>>, None, ArgNone, ArgNone, FALSE, Raised("none", 0))

Init ==
  /\ cfg \in Configs
  /\ state = None
  /\ nsteps = 0
  /\ run_mem = ArgNone
  /\ run_len = ArgNone
  /\ hist = <<>>
  /\ prev = None
  /\ last = NoCall

\* A behaviour follows one caller through one full-sequence call or one
\* generation run (the calls share nothing but the decoder).
\* The caller starts a generation run: it takes the initial cache and fixes
\* the memory arguments it will pass to every step.
GetInitialState(batch_size, dtype, memory, lengths) ==
  /\ last.op = "none"
  /\ state' = Some(get_initial_state(batch_size, dtype))
  /\ nsteps' = 0
  /\ run_mem' = memory
  /\ run_len' = lengths
  /\ hist' = <<>>
  /\ prev' = None
  /\ last' = Call("get_initial_state", batch_size, dtype, <<>>, None,
                  memory, lengths, FALSE,
                  [Raised("ok", 0) EXCEPT !.state = state'])
  /\ UNCHANGED cfg

\* One step of the run, at timestep nsteps with the cache the caller holds.
\* A step that raises returns nothing: the caller keeps its cache.
Step(tok) ==
  /\ ~IsNone(state)
  /\ nsteps < MaxLen
  /\ \E r \in {step(Tensor(Get(state)[1].self_kv.keys.batch,
                           Get(state)[1].self_kv.keys.dtype, Emb(tok)),
                    nsteps, state, run_mem, run_len)} :
       /\ last' = Call("step", Get(state)[1].self_kv.keys.batch,
                       Get(state)[1].self_kv.keys.dtype, <<Emb(tok)>>, None,
                       run_mem, run_len, FALSE, r)
       /\ IF r.status = "ok"
          THEN /\ state' = r.state
               /\ nsteps' = nsteps + 1
               /\ prev' = state
               /\ hist' = Append(hist, [input |-> Emb(tok),
                                        outputs |-> Get(r.outputs).data,
                                        attention |-> r.attention])
          ELSE UNCHANGED <<state, nsteps, prev, hist>>
  /\ UNCHANGED <<cfg, run_mem, run_len>>

\* A full-sequence call, made outside a generation run.
Forward(inputs, sequence_length, memory, lengths, sampling, batch_size) ==
  /\ last.op = "none"
  /\ last' = Call("forward", batch_size, "float32", inputs,
                  sequence_length, memory, lengths, sampling,
                  forward(Tensor(batch_size, "float32", inputs),
                          sequence_length, memory, lengths,
                          IF sampling THEN Some("p") ELSE None))
  /\ UNCHANGED <<cfg, state, nsteps, run_mem, run_len, hist, prev>>

\* Calls with arguments of any arity, on inputs of one token.
SameToken(T) == [i \in 1..T |-> Emb(1)]
SeqLens(T) == {None} \cup {Some(n) : n \in 0..T}
Next ==
  \/ \E B \in Batches, D \in DTypes, m \in MemArgs, n \in LenArgs :
       GetInitialState(B, D, m, n)
  \/ Step(1)
  \/ \E T \in 1..MaxLen, m \in MemArgs, n \in LenArgs, sp \in BOOLEAN, B \in Batches :
       \E sl \in SeqLens(T) : Forward(SameToken(T), sl, m, n, sp, B)

Spec == Init /\ [][Next]_vars

\* Calls with one memory and one length vector per configured source, on
\* inputs of any tokens.
NextDecode ==
  \/ \E a \in WellFormedArgs(cfg.num_sources) :
       GetInitialState(1, "float32", a[1], a[2])
  \/ \E tok \in Tokens : Step(tok)
  \/ \E xs \in InputSeqs, a \in WellFormedArgs(cfg.num_sources) :
       \E sl \in SeqLens(Len(xs)) : Forward(xs, sl, a[1], a[2], FALSE, 1)

SpecDecode == Init /\ [][NextDecode]_vars

\* ------------------------------------------------------------ properties
IsCall == last.op \in {"forward", "step"}
Returned == IsCall /\ last.result.status = "ok"
\* How many memories or length vectors an argument supplies.
Count(arg) == Len(arg.items)
Layers == 1..cfg.num_layers

\* The forward call over the inputs of the run so far, with the run's
\* memory arguments and every position valid (a causal mask).
ForwardOfRun ==
  forward(Tensor(Get(state)[1].self_kv.keys.batch,
                 Get(state)[1].self_kv.keys.dtype,
                 [t \in 1..Len(hist) |-> hist[t].input]),
          Some(Len(hist)), run_mem, run_len, None)
SameAttention(step_attention, forward_attention, t) ==
  /\ IsNone(step_attention) = IsNone(forward_attention)
  /\ ~IsNone(step_attention) =>
       Get(step_attention) = Get(forward_attention)[t]

\* C1 as stated: after T steps from the initial state, the output and the
\* attention of step t equal the output and the attention at position t
\* of forward over the T inputs with a causal mask.
C1_StepEqualsForward ==
  Len(hist) >= 1 =>
    \A f \in {ForwardOfRun} :
      /\ f.status = "ok"
      /\ \A t \in 1..Len(hist) :
           /\ hist[t].outputs = Get(f.outputs).data[t]
           /\ SameAttention(hist[t].attention, f.attention, t)

\* C1 amended: forward returns logits, the output layer applied to the
\* hidden outputs, and step returns the hidden outputs; the output layer
\* applied to the output of step t equals the logits at position t of
\* forward, and the attentions are equal.
C1_StepMatchesForwardLogits ==
  Len(hist) >= 1 =>
    \A f \in {ForwardOfRun} :
      /\ f.status = "ok"
      /\ \A t \in 1..Len(hist) :
           /\ OutputLayer(hist[t].outputs) = Get(f.outputs).data[t]
           /\ SameAttention(hist[t].attention, f.attention, t)

C1_Witness ==
  /\ Len(hist) = MaxLen
  /\ hist[1].input # hist[MaxLen].input
  /\ cfg.num_layers = MaxLayers
  /\ cfg.position_encoder
  /\ ~IsNone(hist[MaxLen].attention)

\* C2: after k successful step calls from the initial state, each passing
\* the state the previous one returned, the self_kv keys and values of
\* every layer have time dimension k.
C2_SelfKvGrowsByOne ==
  ~IsNone(state) =>
    \A l \in 1..Len(Get(state)) :
      /\ TimeDim(Get(state)[l].self_kv.keys) = nsteps
      /\ TimeDim(Get(state)[l].self_kv.values) = nsteps

C2_Witness ==
  /\ nsteps = MaxLen
  /\ cfg.num_layers = MaxLayers
  /\ Len(Get(state)) = MaxLayers
  /\ last.op = "step"

\* C3: in a run of steps with the same memory arguments, every memory_kv
\* entry has the time dimension of its source after the first step, and
\* every later step returns the entries unchanged.
C3_MemoryKvFixed ==
  nsteps >= 1 =>
    \A l \in 1..Len(Get(state)) :
      /\ \A i \in 1..Len(Get(state)[l].memory_kv) :
           /\ TimeDim(Get(state)[l].memory_kv[i].keys) = Len(run_mem.items[i])
           /\ TimeDim(Get(state)[l].memory_kv[i].values) = Len(run_mem.items[i])
      /\ nsteps >= 2 => Get(state)[l].memory_kv = Get(prev)[l].memory_kv

C3_Witness ==
  /\ nsteps = MaxLen
  /\ cfg.num_layers = MaxLayers
  /\ \A l \in Layers : Len(Get(state)[l].memory_kv) = MaxSources

\* C4 as stated: a call returns an attention exactly when the decoder has
\* one source.
C4_AttentionIffOneSource ==
  Returned => (~IsNone(last.result.attention) <=> cfg.num_sources = 1)

\* C6 as stated: a call that supplies a number of memories, or of length
\* vectors, other than num_sources fails and returns nothing.
C6_ArityMismatchFails ==
  (IsCall /\ (Count(last.memory) # cfg.num_sources
                \/ Count(last.lengths) # cfg.num_sources)) =>
    /\ last.result.status # "ok"
    /\ IsNone(last.result.outputs)
    /\ IsNone(last.result.state)

\* C7: forward with a sampling_probability raises the unsupported-feature
\* error before any layer runs and returns no logits, state or attention,
\* whatever the other arguments.
C7_SamplingRejected ==
  (last.op = "forward" /\ last.sampling) =>
    /\ last.result.status = "ValueError"
    /\ last.result.layers_run = 0
    /\ IsNone(last.result.outputs)
    /\ IsNone(last.result.state)
    /\ IsNone(last.result.attention)

C7_Witness ==
  /\ last.op = "forward"
  /\ last.sampling
  /\ Count(last.memory) = cfg.num_sources
  /\ Count(last.lengths) = cfg.num_sources
  /\ cfg.num_sources = 1

\* A key/value pair of shape [B, heads, 0, head_dim] and dtype D.
ZeroLength(pair, B, D) ==
  /\ Shape(pair.keys) = <<B, num_heads, 0, num_units \div num_heads>>
  /\ Shape(pair.values) = <<B, num_heads, 0, num_units \div num_heads>>
  /\ pair.keys.dtype = D
  /\ pair.values.dtype = D

\* C8: get_initial_state(B, D) returns num_layers entries, each with
\* self_kv keys and values of shape [B, heads, 0, head_dim] and with
\* num_sources memory_kv pairs of that shape.
C8_InitialStateShape ==
  last.op = "get_initial_state" =>
    \A c \in {Get(last.result.state)} :
      /\ Len(c) = cfg.num_layers
      /\ \A l \in Layers :
           /\ ZeroLength(c[l].self_kv, last.batch_size, last.dtype)
           /\ Len(c[l].memory_kv) = cfg.num_sources
           /\ \A i \in 1..cfg.num_sources :
                ZeroLength(c[l].memory_kv[i], last.batch_size, last.dtype)

C8_Witness ==
  /\ last.op = "get_initial_state"
  /\ last.batch_size = MaxBatch
  /\ cfg.num_layers = MaxLayers
  /\ cfg.num_sources = MaxSources

\* C9 as stated (for a decoder with at least one source): a call that
\* supplies a memory for every configured source and no
\* memory_sequence_length returns normally, with one memory_kv pair per
\* source in every layer.
C9_LengthsOptional ==
  (IsCall /\ ~last.sampling /\ cfg.num_sources >= 1
     /\ Count(last.memory) = cfg.num_sources
     /\ last.lengths.kind = "none") =>
    /\ last.result.status = "ok"
    /\ \A l \in 1..Len(Get(last.result.state)) :
         Len(Get(last.result.state)[l].memory_kv) = cfg.num_sources

\* C10 as stated: the cache the caller holds always has num_layers
\* entries, entry l built by layer l, each with num_sources memory_kv
\* pairs.
C10_CacheStructure ==
  ~IsNone(state) =>
    /\ Len(Get(state)) = cfg.num_layers
    /\ \A l \in Layers :
         /\ Len(Get(state)[l].memory_kv) = cfg.num_sources
         /\ \A j \in 1..TimeDim(Get(state)[l].self_kv.keys) :
              Get(state)[l].self_kv.keys.data[j][2] = l

\* C5: the logits of forward with a causal mask at position i are the
\* same for any two inputs that agree on the positions up to i.
C5_NoFutureLeak ==
  (last.op = "forward" /\ last.result.status = "ok"
     /\ ~IsNone(last.sequence_length)) =>
    \A b \in InputSeqs :
      \A r \in {forward(Tensor(last.batch_size, last.dtype, b),
                        last.sequence_length, last.memory, last.lengths,
                        None)} :
        \A i \in 1..Min2(Len(b), Len(last.inputs)) :
          (\A j \in 1..i : b[j] = last.inputs[j]) =>
            /\ r.status = "ok"
            /\ Get(r.outputs).data[i] = Get(last.result.outputs).data[i]

C5_Witness ==
  /\ last.op = "forward"
  /\ last.result.status = "ok"
  /\ Len(last.inputs) = MaxLen
  /\ last.sequence_length = Some(MaxLen)
  /\ last.inputs[1] # last.inputs[MaxLen]
  /\ cfg.num_layers = MaxLayers
  /\ cfg.num_sources >= 1

====
